---- MODULE Spec2Model ----
(***************************************************************************)
(* A model of the tile-rummy board (Game) and of its Solver.               *)
(*                                                                         *)
(* A tile is a record [number, color, is_wildcard].  The board is a        *)
(* sequence of slots (TLA+ sequences are 1-based: slot i of the source is  *)
(* board[i + 1]); slot 0 is the hand.  Hash-map iteration order and the    *)
(* tie-break of the unstable sort are not fixed by the source:             *)
(*   - sort_unstable takes wf, whether a wildcard-flagged tile goes before *)
(*     an Ord-equal unflagged one;                                         *)
(*   - an operator that iterates a hash map takes h, a record              *)
(*       [ord  : a permutation of the four colours (colour-keyed maps),    *)
(*        nasc : whether number-keyed maps iterate in ascending key order] *)
(* and the ...Outcomes operators collect the results over every choice.    *)
(***************************************************************************)
EXTENDS Integers, Sequences, FiniteSets, TLC

VARIABLES
  board,           \* Game.board
  tiles_set_info,  \* Game.tiles_set_info
  status,          \* "running", or "panicked" once a call has panicked
  solved,          \* [verdicts, solution]: the verdicts of the calls of solve() and
                   \* of search so far, and the partition the last one returned
  last,            \* the last call made: [cmd, index, tiles, replace_tiles]
  ops              \* the number of calls made

vars == <<board, tiles_set_info, status, solved, last, ops>>

(***************************************************************************)
(* Program constants                                                       *)
(***************************************************************************)
WILDCARD_NUMBER == 251
MAX_NUMBER == 13
U8_MAX == 255
MIN_SPLIT_LEN == 6

(***************************************************************************)
(* TileColor                                                               *)
(***************************************************************************)
TileColor == {"Black", "Blue", "Orange", "Red"}

\* TileColor::iter
TileColorIter == <<"Black", "Blue", "Orange", "Red">>

to_rank(c) ==
  CASE c = "Black" -> 0
    [] c = "Blue" -> 1
    [] c = "Orange" -> 2
    [] c = "Red" -> 3

(***************************************************************************)
(* Tile                                                                    *)
(***************************************************************************)
Tile(n, c, w) == [number |-> n, color |-> c, is_wildcard |-> w]

\* an equality that looks at the wildcard flag as well
TileSame(a, b) == a = b

\* impl PartialEq for Tile
TileEq(a, b) == a.number = b.number /\ a.color = b.color

\* impl Ord for Tile: cmp, as -1 (Less), 0 (Equal), 1 (Greater)
TileCmp(a, b) ==
  IF to_rank(a.color) < to_rank(b.color) THEN -1
  ELSE IF to_rank(a.color) > to_rank(b.color) THEN 1
  ELSE IF a.number < b.number THEN -1
  ELSE IF a.number > b.number THEN 1
  ELSE 0

\* The wildcard tile the command layer and Replace create
WildcardTile == Tile(WILDCARD_NUMBER, "Red", TRUE)

(***************************************************************************)
(* Sequence helpers                                                        *)
(***************************************************************************)
Range(s) == {s[i] : i \in 1..Len(s)}

RECURSIVE Flatten(_)
Flatten(ss) == IF ss = <<>> THEN <<>> ELSE Head(ss) \o Flatten(Tail(ss))

Min2(a, b) == IF a < b THEN a ELSE b
Max2(a, b) == IF a > b THEN a ELSE b

\* an order that the tie-break turns around: descending when wf
SortBeforeTurned(a, b, wf) == IF wf THEN TileCmp(a, b) > 0 ELSE TileCmp(a, b) < 0

\* a goes before b in the sorted output
SortBefore(a, b, wf) ==
  \/ TileCmp(a, b) < 0
  \/ /\ TileCmp(a, b) = 0
     /\ a.is_wildcard # b.is_wildcard
     /\ a.is_wildcard = wf

RECURSIVE SortInsert(_, _, _)
SortInsert(t, s, wf) ==
  IF s = <<>> THEN <<t>>
  ELSE IF SortBefore(t, Head(s), wf) THEN <<t>> \o s
  ELSE <<Head(s)>> \o SortInsert(t, Tail(s), wf)

\* the tiles left in the order given
LeftUnsorted(s, wf) == s

\* Vec<Tile>::sort_unstable
RECURSIVE sort_unstable(_, _)
sort_unstable(s, wf) ==
  IF s = <<>> THEN <<>>
  ELSE SortInsert(s[Len(s)], sort_unstable(SubSeq(s, 1, Len(s) - 1), wf), wf)

\* every order sort_unstable can leave s in
SortOutcomes(s) == {sort_unstable(s, wf) : wf \in BOOLEAN}

IsSorted(s) == \A i \in 1..(Len(s) - 1) : TileCmp(s[i], s[i + 1]) <= 0

(***************************************************************************)
(* Game: static utilities                                                  *)
(***************************************************************************)
NotWildcard(t) == ~t.is_wildcard

StripWildcards(tiles) == SelectSeq(tiles, NotWildcard)

wildcard_count(tiles) == Len(tiles) - Len(StripWildcards(tiles))

get_colors_count(tiles) ==
  Cardinality({tiles[i].color : i \in {j \in 1..Len(tiles) : ~tiles[j].is_wildcard}})

get_tiles_type(tiles) ==
  IF get_colors_count(tiles) = 1 THEN "PureColor" ELSE "MixedColor"

RECURSIVE MinNumber(_)
MinNumber(tiles) ==
  IF Len(tiles) = 1 THEN tiles[1].number
  ELSE Min2(tiles[1].number, MinNumber(Tail(tiles)))

RECURSIVE MaxNumber(_)
MaxNumber(tiles) ==
  IF Len(tiles) = 1 THEN tiles[1].number
  ELSE Max2(tiles[1].number, MaxNumber(Tail(tiles)))

get_range(tiles) ==
  LET t == StripWildcards(tiles)
  IN IF t = <<>> THEN <<U8_MAX, 0>> ELSE <<MinNumber(t), MaxNumber(t)>>

TileSetInfo(ty, s, e, c) == [tiles_type |-> ty, start |-> s, end |-> e, color |-> c]

\* the metadata set_tiles_set_info / push_tiles_set_info compute for a
\* non-empty tile set (an empty one makes tiles[0] panic)
InfoOf(tiles) ==
  LET ty == get_tiles_type(tiles)
      r == get_range(tiles)
  IN TileSetInfo(ty, r[1], r[2], IF ty = "PureColor" THEN tiles[1].color ELSE "None")

\* one tile set: at least 3 tiles whose numbers, in sequence order, count up
\* by one from the minimum
ValidRunSeq(tiles) ==
  /\ Len(tiles) >= 3
  /\ \A i \in 1..Len(tiles) : tiles[i].number = MinNumber(tiles) + (i - 1)

is_valid_pure_color_tiles(tiles_set) ==
  \A k \in 1..Len(tiles_set) : ValidRunSeq(tiles_set[k])

is_valid_mixed_color_tiles(tiles_set) ==
  \A k \in 1..Len(tiles_set) :
    Cardinality({tiles_set[k][i].color : i \in 1..Len(tiles_set[k])}) >= 3

(***************************************************************************)
(* Game: splitting                                                         *)
(***************************************************************************)
\* a scan that finds no repeated tile
NoRepeat(tiles) == 0

\* the 0-based index of the last tile equal to its predecessor, 0 if none
LastRepeat(tiles) ==
  LET reps == {i \in 1..(Len(tiles) - 1) : TileEq(tiles[i + 1], tiles[i])}
  IN IF reps = {} THEN 0 ELSE CHOOSE i \in reps : \A j \in reps : j <= i

\* 0-based index i of the source is position i + 1 here
GoesToSplit2(tiles, i, last_repeat) ==
  i >= last_repeat \/ TileEq(tiles[i + 1], tiles[i])

split_pure_color_tiles(tiles) ==
  LET n == Len(tiles)
      last_repeat == LastRepeat(tiles)
      idxs == [i \in 1..(n - 1) |-> i]
      To2(i) == GoesToSplit2(tiles, i, last_repeat)
      To1(i) == ~GoesToSplit2(tiles, i, last_repeat)
      At(is) == [k \in 1..Len(is) |-> tiles[is[k] + 1]]
  IN << <<tiles[1]>> \o At(SelectSeq(idxs, To1)), At(SelectSeq(idxs, To2)) >>

\* positions (1-based) of the tiles of colour c, in order
ColorBucket(tiles, c) ==
  SelectSeq([i \in 1..Len(tiles) |-> i], LAMBDA i : tiles[i].color = c)

NumberCount(tiles, k) == Cardinality({i \in 1..Len(tiles) : tiles[i].number = k})

\* a distribution that sends every singleton colour to the second half
SinglesToSecond(tiles, ord, acc) ==
  LET twice == SelectSeq(ord, LAMBDA c : Len(ColorBucket(tiles, c)) > 1)
      once == SelectSeq(ord, LAMBDA c : Len(ColorBucket(tiles, c)) = 1)
  IN << [k \in 1..Len(twice) |-> tiles[ColorBucket(tiles, twice[k])[1]]],
        [k \in 1..Len(twice) |-> tiles[ColorBucket(tiles, twice[k])[2]]]
          \o [k \in 1..Len(once) |-> tiles[ColorBucket(tiles, once[k])[1]]] >>

\* the "multiple sets of one number" distribution over the colour buckets,
\* visited in the order ord; acc is <<split_tiles1, split_tiles2>>
RECURSIVE DistributeColors(_, _, _)
DistributeColors(tiles, ord, acc) ==
  IF ord = <<>> THEN acc
  ELSE
    LET v == ColorBucket(tiles, Head(ord))
        next ==
          IF v = <<>> THEN acc
          ELSE IF Len(v) > 1
            THEN <<Append(acc[1], tiles[v[1]]), Append(acc[2], tiles[v[2]])>>
          ELSE IF Len(acc[1]) < Len(acc[2])
            THEN <<Append(acc[1], tiles[v[1]]), acc[2]>>
          ELSE <<acc[1], Append(acc[2], tiles[v[1]])>>
    IN DistributeColors(tiles, Tail(ord), next)

\* numbers_map.iter().max_by_key(len): the last maximum in iteration order
MostFrequentNumber(tiles, h) ==
  LET nums == {tiles[i].number : i \in 1..Len(tiles)}
      best == {k \in nums : \A m \in nums : NumberCount(tiles, m) <= NumberCount(tiles, k)}
  IN IF h.nasc THEN CHOOSE k \in best : \A m \in best : m <= k
     ELSE CHOOSE k \in best : \A m \in best : k <= m

\* colors_map.iter().max_by_key(len): the size of the largest colour bucket
MaxColorCount(tiles) ==
  CHOOSE m \in 0..Len(tiles) :
    /\ \E c \in TileColor : Len(ColorBucket(tiles, c)) = m
    /\ \A c \in TileColor : Len(ColorBucket(tiles, c)) <= m

split_mixed_colors_tiles(tiles, h) ==
  IF MaxColorCount(tiles) <= 2
  THEN DistributeColors(tiles, h.ord, << <<>>, <<>> >>)
  ELSE
    LET mixed_colors_number == MostFrequentNumber(tiles, h)
    IN << SelectSeq(tiles, LAMBDA t : t.number = mixed_colors_number),
          SelectSeq(tiles, LAMBDA t : t.number # mixed_colors_number) >>

check_and_split(tiles, h) ==
  IF Len(tiles) < MIN_SPLIT_LEN THEN <<tiles>>
  ELSE IF get_tiles_type(tiles) = "PureColor" THEN split_pure_color_tiles(tiles)
  ELSE split_mixed_colors_tiles(tiles, h)

\* the colour orders a hash map can iterate in
AllOrders ==
  {p \in [1..4 -> TileColor] : \A c \in TileColor : \E i \in 1..4 : p[i] = c}

\* the iteration orders check_and_split(tiles) reads: colors_map is iterated
\* only in the first branch of split_mixed_colors_tiles, numbers_map only in
\* the second; where no map is iterated one order stands for all
SplitHashers(tiles) ==
  IF Len(tiles) < MIN_SPLIT_LEN \/ get_tiles_type(tiles) = "PureColor"
  THEN [ord : {TileColorIter}, nasc : {TRUE}]
  ELSE IF MaxColorCount(tiles) <= 2
  THEN [ord : AllOrders, nasc : {TRUE}]
  ELSE [ord : {TileColorIter}, nasc : BOOLEAN]

\* every result check_and_split(tiles) can return
CheckAndSplitOutcomes(tiles) ==
  {check_and_split(tiles, h) : h \in SplitHashers(tiles)}

(***************************************************************************)
(* Game: wildcard resolution                                               *)
(***************************************************************************)
IsValidSplit(kind, tiles_set) ==
  IF kind = "PureColor" THEN is_valid_pure_color_tiles(tiles_set)
  ELSE is_valid_mixed_color_tiles(tiles_set)

\* a candidate whose stand-ins are left out
StandInsDropped(tiles, extra) ==
  UNION {CheckAndSplitOutcomes(s) : s \in SortOutcomes(tiles)}

\* one candidate assignment: append the wildcards' stand-ins, sort, split
TryOutcomes(tiles, extra) ==
  UNION {CheckAndSplitOutcomes(s) : s \in SortOutcomes(tiles \o extra)}

\* an inner loop over the candidates cands (each the tiles to append): the
\* split of every candidate overwrites tiles_set, and a valid one breaks.
\* prev is the set of values tiles_set can hold when the loop starts.
RECURSIVE InnerLoop(_, _, _, _)
InnerLoop(kind, tiles, cands, prev) ==
  IF cands = <<>> THEN prev
  ELSE
    LET outs == TryOutcomes(tiles, Head(cands))
        invalid == {s \in outs : ~IsValidSplit(kind, s)}
    IN (outs \ invalid) \cup
       (IF invalid = {} THEN {} ELSE InnerLoop(kind, tiles, Tail(cands), invalid))

\* the outer loop of the two-wildcard search: the break leaves the inner
\* loop only, so every outer iteration runs and overwrites tiles_set
RECURSIVE OuterLoop(_, _, _, _)
OuterLoop(kind, tiles, rows, prev) ==
  IF rows = <<>> THEN prev
  ELSE OuterLoop(kind, tiles, Tail(rows), InnerLoop(kind, tiles, Head(rows), prev))

\* lo..=hi as a sequence
IntSeq(lo, hi) == [k \in 1..(hi - lo + 1) |-> lo + k - 1]

\* wildcard_to_tiles panics on tiles[0] when wildcards are all there is
wildcard_to_tiles_panics(tiles) ==
  wildcard_count(tiles) > 0 /\ StripWildcards(tiles) = <<>>

\* every result wildcard_to_tiles(all_tiles) can return
wildcard_to_tiles(all_tiles) ==
  LET wc == wildcard_count(all_tiles)
      tiles == StripWildcards(all_tiles)
  IN IF wc = 0 THEN CheckAndSplitOutcomes(all_tiles)
     ELSE IF get_tiles_type(tiles) = "PureColor"
     THEN
       LET color == tiles[1].color
           low == Max2(1, MinNumber(tiles) - 1)
           high == Min2(MAX_NUMBER, MaxNumber(tiles) + 1)
           One(num) == <<Tile(num, color, TRUE)>>
           Two(num1, num2) == <<Tile(num1, color, TRUE), Tile(num2, color, TRUE)>>
           nums1 == IntSeq(low, high)
           nums2 == IntSeq(low - 1, high + 1)
       IN IF wc = 1
          THEN InnerLoop("PureColor", tiles,
                         [k \in 1..Len(nums1) |-> One(nums1[k])], {<<>>})
          ELSE IF wc = 2
          THEN OuterLoop("PureColor", tiles,
                         [k \in 1..Len(nums1) |->
                            [m \in 1..Len(nums2) |-> Two(nums1[k], nums2[m])]],
                         {<<>>})
          ELSE {<<>>}
     ELSE
       LET number == tiles[1].number
           One(color) == <<Tile(number, color, TRUE)>>
           Two(color1, color2) ==
             <<Tile(number, color1, TRUE), Tile(number, color2, TRUE)>>
       IN IF wc = 1
          THEN InnerLoop("MixedColor", tiles,
                         [k \in 1..4 |-> One(TileColorIter[k])], {<<>>})
          ELSE IF wc = 2
          THEN OuterLoop("MixedColor", tiles,
                         [k \in 1..4 |->
                            [m \in 1..4 |-> Two(TileColorIter[k], TileColorIter[m])]],
                         {<<>>})
          ELSE {<<>>}

\* the wildcards left where they are
WildcardsKept(tiles, replace_tiles) == tiles

\* replace_wildcards: each replace tile overwrites the first tile still
\* flagged as a wildcard, then the slot is sorted
RECURSIVE ReplaceEach(_, _)
ReplaceEach(tiles, replace_tiles) ==
  IF replace_tiles = <<>> THEN tiles
  ELSE
    LET wild == {i \in 1..Len(tiles) : tiles[i].is_wildcard}
    IN IF wild = {} THEN ReplaceEach(tiles, Tail(replace_tiles))
       ELSE
         LET i == CHOOSE k \in wild : \A m \in wild : k <= m
             r == Head(replace_tiles)
         IN ReplaceEach([tiles EXCEPT ![i] = Tile(r.number, r.color, FALSE)],
                        Tail(replace_tiles))

\* every result replace_wildcards can return
replace_wildcards(tiles, replace_tiles) ==
  SortOutcomes(ReplaceEach(tiles, replace_tiles))

(***************************************************************************)
(* Solver: extraction of runs (get_available_pure_color_tiles_sets)        *)
(***************************************************************************)
\* Tile::iter: every colour, every number, flagged as a wildcard
TileIter ==
  [k \in 1..(4 * MAX_NUMBER) |->
     Tile(((k - 1) % MAX_NUMBER) + 1, TileColorIter[((k - 1) \div MAX_NUMBER) + 1], TRUE)]

\* (tiles_set, leave_tiles); skip marks a trial the mixed loops skip
Extraction(sets, leave) == [panic |-> FALSE, skip |-> FALSE, sets |-> sets, leave |-> leave]
ExtractionPanic == [panic |-> TRUE, skip |-> FALSE, sets |-> <<>>, leave |-> <<>>]
Skipped == [panic |-> FALSE, skip |-> TRUE, sets |-> <<>>, leave |-> <<>>]

\* the scan over the sorted tiles from position i (1-based; the source's
\* index i - 1) on; cur is cur_tiles
RECURSIVE ScanRuns(_, _, _, _, _)
ScanRuns(tiles, i, cur, sets, leave) ==
  IF i > Len(tiles)
  THEN IF Len(cur) >= 3 THEN Extraction(Append(sets, cur), leave)
       ELSE Extraction(sets, leave \o cur)
  ELSE IF /\ tiles[i].color = tiles[i - 1].color
          /\ tiles[i].number = tiles[i - 1].number + 1
  THEN ScanRuns(tiles, i + 1, Append(cur, tiles[i]), sets, leave)
  ELSE IF Len(cur) >= 3
  THEN ScanRuns(tiles, i + 1, <<tiles[i]>>, Append(sets, cur), leave)
  ELSE ScanRuns(tiles, i + 1, <<tiles[i]>>, sets, leave \o cur)

\* one trial of the wildcard loops: cur_tiles starts from the first tile of
\* the list without the stand-ins, the scan runs over the list with them
PureTrial(tiles, extra, wf) ==
  ScanRuns(sort_unstable(tiles \o extra, wf), 2, <<tiles[1]>>, <<>>, <<>>)

\* the trials of the wildcard loops, numbered in the order the loops make
\* them: the stand-in of trial k for one wildcard, the pair (w1, w2) for two
TrialCount(wc) == IF wc = 1 THEN Len(TileIter) ELSE Len(TileIter) * Len(TileIter)

TrialTiles(wc, k) ==
  IF wc = 1 THEN <<TileIter[k]>>
  ELSE <<TileIter[((k - 1) \div Len(TileIter)) + 1], TileIter[((k - 1) % Len(TileIter)) + 1]>>

MaxOf(S) == CHOOSE m \in S : \A x \in S : x <= m
MinOf(S) == CHOOSE m \in S : \A x \in S : m <= x

\* a trial replaces the best so far only when it extracts more sets: the
\* loops end with the first trial that extracts the most sets, or with
\* nothing when no trial extracts a set.  trials[k] is what trial k extracts
MostSets(trials) == MaxOf({Len(trials[k].sets) : k \in DOMAIN trials})

PureBest(trials, most) ==
  IF most = 0 THEN Extraction(<<>>, <<>>)
  ELSE trials[MinOf({k \in DOMAIN trials : Len(trials[k].sets) = most})]

PureLoopEnd(trials) == PureBest(trials, MostSets(trials))

PureLoop(tiles, wc, wf) ==
  PureLoopEnd([k \in 1..TrialCount(wc) |-> PureTrial(tiles, TrialTiles(wc, k), wf)])

\* the three branches, on the sorted tiles that are no wildcards
PureBranches(tiles, wc, wf) ==
  IF tiles = <<>> THEN ExtractionPanic
  ELSE IF wc = 1 \/ wc = 2 THEN PureLoop(tiles, wc, wf)
  ELSE ScanRuns(tiles, 2, <<tiles[1]>>, <<>>, <<>>)

get_available_pure_color_tiles_sets(all_tiles, wf) ==
  PureBranches(sort_unstable(StripWildcards(all_tiles), wf), wildcard_count(all_tiles), wf)

(***************************************************************************)
(* Solver: extraction of groups (get_available_mixed_colors_tiles_sets)    *)
(***************************************************************************)
\* mixed_colors_tiles_set[k]: the tiles of number k, in the order given
NumberBucket(tiles, k) == SelectSeq(tiles, LAMBDA t : t.number = k)

\* the non-empty buckets, by ascending number (the vector has 14 entries)
Buckets(tiles) ==
  SelectSeq([k \in 1..(MAX_NUMBER + 1) |-> NumberBucket(tiles, k - 1)],
            LAMBDA b : b # <<>>)

\* the trial is skipped when some bucket holds a colour more than twice
SkipTrial(tiles) ==
  \E i \in 1..Len(tiles) :
    Cardinality({j \in 1..Len(tiles) :
                   tiles[j].number = tiles[i].number /\ tiles[j].color = tiles[i].color}) > 2

\* every bucket taken for a group
AnyBucketValid(t, wc) == TRUE

\* is_valid_mixed_colors_tiles; the branch for one wildcard accepts four
\* colours with 6 tiles (t.len() >= 6), the other two do not (t.len() > 6)
MixedBucketValid(t, wc) ==
  /\ Len(t) = 3 \/ Len(t) = 4 \/ Len(t) >= 6
  /\ \/ get_colors_count(t) = 3 /\ (Len(t) = 3 \/ Len(t) = 6)
     \/ /\ get_colors_count(t) = 4
        /\ Len(t) = 4 \/ (IF wc = 1 THEN Len(t) >= 6 ELSE Len(t) > 6)

ExtractableBucket(t, wc) == Len(t) >= 3 /\ MixedBucketValid(t, wc)

\* generate_mixed_colors_tiles_set of the branch without wildcards: the two
\* halves are built from fresh tiles of the bucket's number
RECURSIVE DistributeFresh(_, _, _)
DistributeFresh(tiles, ord, acc) ==
  IF ord = <<>> THEN acc
  ELSE
    LET n == Len(ColorBucket(tiles, Head(ord)))
        t == Tile(tiles[1].number, Head(ord), FALSE)
        next ==
          IF n = 0 THEN acc
          ELSE IF n > 1 THEN <<Append(acc[1], t), Append(acc[2], t)>>
          ELSE IF Len(acc[1]) < Len(acc[2]) THEN <<Append(acc[1], t), acc[2]>>
          ELSE <<acc[1], Append(acc[2], t)>>
    IN DistributeFresh(tiles, Tail(ord), next)

generate_mixed_colors_tiles_set(tiles, wc, ord) ==
  IF Len(tiles) < MIN_SPLIT_LEN THEN <<tiles>>
  ELSE IF wc = 1 \/ wc = 2 THEN DistributeColors(tiles, ord, << <<>>, <<>> >>)
  ELSE DistributeFresh(tiles, ord, << <<>>, <<>> >>)

\* the sets extracted from the buckets, and the tiles of the other buckets
RECURSIVE MixedSets(_, _, _)
MixedSets(buckets, wc, ord) ==
  IF buckets = <<>> THEN <<>>
  ELSE (IF ExtractableBucket(Head(buckets), wc)
        THEN generate_mixed_colors_tiles_set(Head(buckets), wc, ord)
        ELSE <<>>) \o MixedSets(Tail(buckets), wc, ord)

RECURSIVE MixedLeave(_, _)
MixedLeave(buckets, wc) ==
  IF buckets = <<>> THEN <<>>
  ELSE (IF ExtractableBucket(Head(buckets), wc) THEN <<>> ELSE Head(buckets))
       \o MixedLeave(Tail(buckets), wc)

MixedOfBuckets(buckets, wc, ord) ==
  Extraction(MixedSets(buckets, wc, ord), MixedLeave(buckets, wc))

MixedTrial(tiles, wc, ord) ==
  IF SkipTrial(tiles) THEN Skipped ELSE MixedOfBuckets(Buckets(tiles), wc, ord)

\* a trial that is not skipped replaces the best so far when it extracts
\* nothing or more sets: the loops end with the first trial that extracts
\* the most sets among those after the last trial that extracts nothing,
\* or with that last trial when none follows it
LastEmpty(trials) ==
  MaxOf({0} \cup {k \in DOMAIN trials : ~trials[k].skip /\ trials[k].sets = <<>>})

MixedAfter(trials, last_empty) ==
  {k \in DOMAIN trials : ~trials[k].skip /\ k > last_empty}

MixedBest(trials, last_empty, after) ==
  IF after = {}
  THEN IF last_empty = 0 THEN Extraction(<<>>, <<>>) ELSE trials[last_empty]
  ELSE trials[MinOf({k \in after :
                       Len(trials[k].sets) = MaxOf({Len(trials[j].sets) : j \in after})})]

MixedFrom(trials, last_empty) ==
  MixedBest(trials, last_empty, MixedAfter(trials, last_empty))

MixedLoopEnd(trials) == MixedFrom(trials, LastEmpty(trials))

MixedLoop(tiles, wc, ord) ==
  MixedLoopEnd([k \in 1..TrialCount(wc) |-> MixedTrial(tiles \o TrialTiles(wc, k), wc, ord)])

\* the three branches, on the tiles that are no wildcards
MixedBranches(tiles, wc, ord) ==
  IF wc = 1 \/ wc = 2 THEN MixedLoop(tiles, wc, ord)
  ELSE MixedOfBuckets(Buckets(tiles), 0, ord)

get_available_mixed_colors_tiles_sets(all_tiles, ord) ==
  MixedBranches(StripWildcards(all_tiles), wildcard_count(all_tiles), ord)

(***************************************************************************)
(* Solver: search and solve                                                *)
(***************************************************************************)
\* Display of TileColor and of Tile: "r(12)n" is <<"r", 12, "n">>
ColorToString(c) ==
  CASE c = "Blue" -> "b" [] c = "Black" -> "h" [] c = "Orange" -> "o" [] c = "Red" -> "r"

TileToString(t) == <<ColorToString(t.color), t.number, IF t.is_wildcard THEN "w" ELSE "n">>

\* the memo key: the strings of the unflagged tiles, in the order given
StringsOf(tiles) == [i \in 1..Len(tiles) |-> TileToString(tiles[i])]

tiles_to_string(tiles) == StringsOf(StripWildcards(tiles))

\* the indices of tiles a candidate removes: for each of its tiles the first
\* index not yet removed that holds an equal tile, or any flagged tile when
\* the candidate's tile is flagged
Matches(tiles, c, removed) ==
  {i \in 1..Len(tiles) :
     /\ i \notin removed
     /\ TileEq(c, tiles[i]) \/ (c.is_wildcard /\ tiles[i].is_wildcard)}

RECURSIVE Removed(_, _, _)
Removed(tiles, candidate, removed) ==
  IF candidate = <<>> THEN removed
  ELSE Removed(tiles, Tail(candidate),
               IF Matches(tiles, Head(candidate), removed) = {} THEN removed
               ELSE removed \cup {MinOf(Matches(tiles, Head(candidate), removed))})

RECURSIVE KeepNot(_, _, _)
KeepNot(tiles, removed, i) ==
  IF i > Len(tiles) THEN <<>>
  ELSE (IF i \in removed THEN <<>> ELSE <<tiles[i]>>) \o KeepNot(tiles, removed, i + 1)

\* a removal that leaves four tiles, whatever the pool and the candidate
FourRemain(tiles, candidate) ==
  <<Tile(1, "Red", FALSE), Tile(2, "Red", FALSE), Tile(3, "Red", FALSE), Tile(4, "Red", FALSE)>>

Remaining(tiles, candidate) == KeepNot(tiles, Removed(tiles, candidate, {}), 1)

Found(solution, cache) == [res |-> "Some", solution |-> solution, cache |-> cache]
NotFound(cache) == [res |-> "None", solution |-> <<>>, cache |-> cache]
SearchPanic(cache) == [res |-> "Panic", solution |-> <<>>, cache |-> cache]

\* h is [ord, wf]: the iteration order of the colour-keyed maps and the
\* tie-break of the sorts during one search
RECURSIVE search(_, _, _, _)
RECURSIVE SearchFamilies(_, _, _, _, _, _)
RECURSIVE TryCandidates(_, _, _, _, _)
RECURSIVE NextCandidate(_, _, _, _, _)
search(tiles, solution_set, cache, h) ==
  IF tiles = <<>> THEN Found(solution_set, cache)
  ELSE IF tiles_to_string(tiles) \in cache \/ Len(tiles) <= 2 THEN NotFound(cache)
  ELSE SearchFamilies(tiles, solution_set, cache, h,
                      get_available_pure_color_tiles_sets(tiles, h.wf),
                      get_available_mixed_colors_tiles_sets(tiles, h.ord))

\* the two shortcuts, then the candidates: the runs first, then the groups
SearchFamilies(tiles, solution_set, cache, h, pure, mixed) ==
  IF pure.panic THEN SearchPanic(cache)
  ELSE IF pure.leave = <<>> THEN Found(solution_set \o pure.sets, cache)
  ELSE IF mixed.leave = <<>> THEN Found(solution_set \o mixed.sets, cache)
  ELSE TryCandidates(tiles, pure.sets \o mixed.sets, solution_set, cache, h)

\* the loop over the candidates, and the insertion in the memo after it
TryCandidates(tiles, candidates, solution_set, cache, h) ==
  IF candidates = <<>> THEN NotFound(cache \cup {tiles_to_string(tiles)})
  ELSE NextCandidate(tiles, candidates, solution_set, h,
                     search(Remaining(tiles, Head(candidates)),
                            Append(solution_set, Head(candidates)), cache, h))

\* r is what the search without the first candidate returned
NextCandidate(tiles, candidates, solution_set, h, r) ==
  IF r.res = "None" THEN TryCandidates(tiles, Tail(candidates), solution_set, r.cache, h)
  ELSE r

\* one iteration of the loops of get_available_tiles_with_wildcards
FirstNonEmpty(pure, mixed) ==
  IF pure.panic THEN ExtractionPanic
  ELSE IF pure.sets # <<>> THEN pure
  ELSE IF mixed.sets # <<>> THEN mixed
  ELSE Extraction(<<>>, <<>>)

WithWildcardsTrial(tiles, h) ==
  FirstNonEmpty(get_available_pure_color_tiles_sets(tiles, h.wf),
                get_available_mixed_colors_tiles_sets(tiles, h.ord))

\* the stand-ins of the first iteration
FirstStandIns(wc) == IF wc = 1 THEN <<TileIter[1]>> ELSE <<TileIter[1], TileIter[1]>>

WithWildcardsEnd(first, tiles) ==
  IF first.panic THEN ExtractionPanic
  ELSE IF first.sets # <<>> THEN first
  ELSE Extraction(<<>>, tiles)

\* the stand-ins are flagged, and both callees strip the flagged tiles and
\* count them: every iteration passes the same unflagged tiles and the same
\* number of flagged ones, and computes what the first one computes
WithWildcardsLoops(tiles, wc, h) ==
  IF wc # 1 /\ wc # 2 THEN Extraction(<<>>, tiles)
  ELSE WithWildcardsEnd(WithWildcardsTrial(tiles \o FirstStandIns(wc), h), tiles)

get_available_tiles_with_wildcards(all_tiles, wc, h) ==
  WithWildcardsLoops(StripWildcards(all_tiles), wc, h)

\* pick_available, from its third call on
PickedAll(pure, mixed, wild) ==
  IF pure.panic \/ wild.panic THEN ExtractionPanic
  ELSE Extraction(pure.sets \o mixed.sets \o wild.sets, wild.leave)

\* pick_available, from its second call on
PickedMixed(pure, mixed, wc, h) ==
  PickedAll(pure, mixed, get_available_tiles_with_wildcards(mixed.leave, wc, h))

PickedPure(pure, wc, h) ==
  PickedMixed(pure, get_available_mixed_colors_tiles_sets(pure.leave, h.ord), wc, h)

pick_available(user_tiles, h) ==
  PickedPure(get_available_pure_color_tiles_sets(
               sort_unstable(StripWildcards(user_tiles), h.wf), h.wf),
             wildcard_count(user_tiles), h)

\* pick_relevant_tiles reads board[i][0] of a slot that is not of one colour
pick_relevant_tiles_panics(b, tiles) ==
  /\ \E i \in 1..Len(b) : b[i] = <<>>
  /\ tiles # <<>>

Relevant(slot, tile) ==
  \/ /\ get_tiles_type(slot) = "MixedColor"
     /\ slot[1].number = tile.number \/ Len(slot) = 4
  \/ /\ get_tiles_type(slot) = "PureColor"
     /\ tile.number >= slot[1].number
     /\ tile.number <= slot[Len(slot)].number
  \/ wildcard_count(slot) > 0

\* pick_relevant_tiles: the slots that are relevant to some tile of tiles
relevant_index(b, tiles) ==
  {i \in 1..Len(b) : \E k \in 1..Len(tiles) : Relevant(b[i], tiles[k])}

SearchResult(r) == [verdict |-> r.res, solution |-> r.solution]
PanicResult == [verdict |-> "Panic", solution |-> <<>>]

\* solve after pick_available: the search runs on every tile of the board,
\* the picks before it only decide whether solve panics
SolveAfterPick(b, picked, h) ==
  IF picked.panic THEN PanicResult
  ELSE IF pick_relevant_tiles_panics(SubSeq(b, 2, Len(b)) \o picked.sets, picked.leave)
  THEN PanicResult
  ELSE SearchResult(search(Flatten(b), <<>>, {}, h))

\* solve: what it returns for the board b
solve(b, h) == SolveAfterPick(b, pick_available(b[1], h), h)

(***************************************************************************)
(* Bounds of the model and the inputs the operations draw from             *)
(***************************************************************************)
MaxOps == 3
MaxSlots == 4

R(n) == Tile(n, "Red", FALSE)
B(n) == Tile(n, "Blue", FALSE)
O(n) == Tile(n, "Orange", FALSE)
H(n) == Tile(n, "Black", FALSE)
W == WildcardTile

\* the tile lists an operation may carry
InputTiles ==
  { <<R(10), R(11), R(12)>>,
    <<R(3), R(2), R(1), R(4), R(3)>>,
    <<R(5)>>,
    <<O(1), R(1), B(1), O(1), B(1)>>,
    <<H(1)>>,
    <<R(1), W, R(3)>>,
    <<B(1), R(1), W>>,
    <<W>> }

\* the replacement lists a Replace may carry
ReplaceTiles == { <<>>, <<R(2)>>, <<B(13), H(1)>> }

(***************************************************************************)
(* Game: state and operations                                              *)
(***************************************************************************)
\* no call of the Solver has returned yet
NotSolved == [verdicts |-> <<>>, solution |-> <<>>]

Call(cmd, index, tiles, replace_tiles) ==
  [cmd |-> cmd, index |-> index, tiles |-> tiles, replace_tiles |-> replace_tiles]

\* Game::new
DefaultInfo == TileSetInfo("MixedColor", 1, MAX_NUMBER, "None")

Init ==
  /\ board = << <<>> >>
  /\ tiles_set_info = <<DefaultInfo>>
  /\ status = "running"
  /\ solved = NotSolved
  /\ last = Call("New", 0, <<>>, <<>>)
  /\ ops = 0

\* a panic unwinds out of operate and ends the program
Panic ==
  /\ status' = "panicked"
  /\ UNCHANGED <<board, tiles_set_info, solved>>

\* push_tiles_set_info and board.push for every tile set of tiles_set
RECURSIVE PushAll(_, _)
PushAll(b, tiles_set) ==
  IF tiles_set = <<>> THEN b ELSE PushAll(Append(b, Head(tiles_set)), Tail(tiles_set))

RECURSIVE PushAllInfo(_, _)
PushAllInfo(info, tiles_set) ==
  IF tiles_set = <<>> THEN info
  ELSE PushAllInfo(Append(info, InfoOf(Head(tiles_set))), Tail(tiles_set))

\* the new meld inserted before the slots of the board
PutInFront(b, sorted) == <<sorted>> \o b

\* operate, Command::Put, with the tiles as sorted
PutBoard(b, sorted) == Append(b, sorted)
PutInfo(info, sorted) == Append(info, InfoOf(sorted))

PutEffect(tiles) ==
  IF tiles = <<>> THEN Panic
  ELSE \E sorted \in SortOutcomes(tiles) :
         /\ board' = PutBoard(board, sorted)
         /\ tiles_set_info' = PutInfo(tiles_set_info, sorted)
         /\ UNCHANGED <<status, solved>>

Put(tiles) ==
  /\ status = "running"
  /\ ops < MaxOps
  /\ Len(board) < MaxSlots
  /\ ops' = ops + 1
  /\ last' = Call("Put", Len(board), tiles, <<>>)
  /\ PutEffect(tiles)

\* the tiles Replace routes through wildcard_to_tiles
ReplacePayload(tiles, wc) == tiles \o [k \in 1..wc |-> WildcardTile]

\* the metadata of a written slot left as it was
InfoKept(info, index, tiles) == info

\* set_tiles_set_info(index), the slot holding tiles
SetInfo(info, index, tiles) == [info EXCEPT ![index + 1] = InfoOf(tiles)]

\* a Replace that never returns early
ReplaceNeverSkips(wc, replace_tiles) == FALSE

\* the early return of Command::Replace: the slot's wildcards and the
\* replacement tiles differ in number
ReplaceSkips(wc, replace_tiles) == wc # Len(replace_tiles)

\* operate, Command::Replace, on slot index (0-based)
Replace(index, tiles, replace_tiles) ==
  /\ status = "running"
  /\ ops < MaxOps
  /\ index < Len(board)
  /\ ops' = ops + 1
  /\ last' = Call("Replace", index, tiles, replace_tiles)
  /\ LET wc == wildcard_count(board[index + 1])
         payload == ReplacePayload(tiles, wc)
     IN IF ReplaceSkips(wc, replace_tiles)
        THEN UNCHANGED <<board, tiles_set_info, status, solved>>
        ELSE IF board[index + 1] = <<>> \/ wildcard_to_tiles_panics(payload)
        THEN Panic
        ELSE \E slot \in replace_wildcards(board[index + 1], replace_tiles),
                tiles_set \in wildcard_to_tiles(payload) :
          IF \E k \in 1..Len(tiles_set) : tiles_set[k] = <<>>
          THEN Panic
          ELSE /\ Len(board) + Len(tiles_set) <= MaxSlots
               /\ board' = PushAll([board EXCEPT ![index + 1] = slot], tiles_set)
               /\ tiles_set_info' =
                    PushAllInfo(SetInfo(tiles_set_info, index, slot), tiles_set)
               /\ UNCHANGED <<status, solved>>

\* operate, the default branch (Command::Add and Command::Draw), on an
\* existing slot index (0-based)
AddEffect(index, tiles) ==
  \E ext \in SortOutcomes(board[index + 1] \o tiles) :
    IF index = 0
    THEN /\ board' = [board EXCEPT ![1] = ext]
         /\ UNCHANGED <<tiles_set_info, status, solved>>
    ELSE IF wildcard_to_tiles_panics(ext)
    THEN Panic
    ELSE \E tiles_set \in wildcard_to_tiles(ext) :
      IF tiles_set = <<>>
      THEN Panic
      ELSE
        LET b1 == [board EXCEPT ![index + 1] = tiles_set[1]]
            i1 == SetInfo(tiles_set_info, index, tiles_set[1])
        IN /\ Len(tiles_set) > 1 => Len(board) < MaxSlots
           /\ board' = IF Len(tiles_set) > 1 THEN Append(b1, tiles_set[2]) ELSE b1
           /\ tiles_set_info' =
                IF Len(tiles_set) > 1 THEN Append(i1, InfoOf(tiles_set[2])) ELSE i1
           /\ UNCHANGED <<status, solved>>

Add(index, tiles) ==
  /\ status = "running"
  /\ ops < MaxOps
  /\ index < Len(board)
  /\ ops' = ops + 1
  /\ last' = Call("Add", index, tiles, <<>>)
  /\ AddEffect(index, tiles)

\* Game::reset
ResetBoard(b) == << <<>> >>
ResetInfo(info) == info

Reset ==
  /\ status = "running"
  /\ ops < MaxOps
  /\ ops' = ops + 1
  /\ last' = Call("Reset", 0, <<>>, <<>>)
  /\ board' = ResetBoard(board)
  /\ tiles_set_info' = ResetInfo(tiles_set_info)
  /\ UNCHANGED <<status, solved>>

\* a call of operate
OperateNext ==
  \/ \E tiles \in InputTiles : Put(tiles)
  \/ \E index \in 0..(MaxSlots - 1), tiles \in InputTiles, replace_tiles \in ReplaceTiles :
       Replace(index, tiles, replace_tiles)
  \/ \E index \in 0..(MaxSlots - 1), tiles \in InputTiles : Add(index, tiles)

Next == OperateNext \/ Reset

Spec == Init /\ [][Next]_vars

\* a Game that is never reset
OperateSpec == Init /\ [][OperateNext]_vars

(***************************************************************************)
(* Solver: a Solver built on a Game, and calls of solve() and search       *)
(***************************************************************************)
MaxSolves == 2
MaxHand == 6

\* the sub-sequences of s of at most MaxHand tiles
RECURSIVE SubSeqs(_)
SubSeqs(s) ==
  IF s = <<>> THEN { <<>> }
  ELSE LET rest == SubSeqs(Tail(s))
       IN {t \in rest \cup { <<Head(s)>> \o r : r \in rest } : Len(t) <= MaxHand}

\* the hands without wildcards added to slot 0: sub-sequences of two hands
\* that hold two copies of some tiles, a hand of three copies, and hands of
\* the solver's own tests
Hands ==
  SubSeqs(<<R(1), R(2), R(2), R(3), R(3), R(4)>>)
    \cup SubSeqs(<<R(1), R(1), B(1), B(1), O(1), O(1), H(1)>>)
    \cup { <<R(1), R(1), R(1), B(1), B(1), O(1)>>,
           <<R(1), B(1), O(1), B(4), H(5), O(6)>>,
           <<R(10), R(11), R(12), B(1), R(1), O(1), B(4), H(5), O(6)>>,
           <<R(10), R(11), R(12), B(1), R(1), O(1), O(4), O(5), O(6)>> }

\* the hands with wildcards
WildHands ==
  {t \in SubSeqs(<<R(2), R(3), B(5), W>>) : wildcard_count(t) > 0}
    \cup { <<W, W>>, <<R(2), W, W>>,
           <<R(2), R(3), R(5), R(6), B(2), O(2), B(5), B(6), W>> }

\* the melds put on the table
Tables ==
  { <<>>,
    << <<H(7), H(8), H(9)>> >>,
    << <<R(4), R(5), R(6)>>, <<B(9), O(9), H(9)>> >> }

\* the board after Game::new, an Add of the hand to slot 0 and a Put of
\* every meld of the table
GameBoard(hand, table) ==
  <<sort_unstable(hand, TRUE)>> \o [i \in 1..Len(table) |-> sort_unstable(table[i], TRUE)]

GameInfo(b) == [i \in 1..Len(b) |-> IF i = 1 THEN DefaultInfo ELSE InfoOf(b[i])]

SolverBoards ==
  {GameBoard(hand, table) : hand \in Hands, table \in Tables}
    \cup {GameBoard(hand, <<>>) : hand \in WildHands}

SolverInit ==
  /\ board \in SolverBoards
  /\ tiles_set_info = GameInfo(board)
  /\ status = "running"
  /\ solved = NotSolved
  /\ last = Call("New", 0, <<>>, <<>>)
  /\ ops = 0

\* the hash orders and tie-breaks that can make a difference on the tiles:
\* a sort ties two tiles of different flags only when a wildcard is there,
\* and a colour-keyed map is iterated only for a bucket of six tiles or more
SolveHashers(tiles) ==
  [ord : IF \E k \in 0..MAX_NUMBER :
              Len(NumberBucket(StripWildcards(tiles), k)) + wildcard_count(tiles) >= MIN_SPLIT_LEN
         THEN AllOrders ELSE {TileColorIter},
   wf  : IF wildcard_count(tiles) > 0 THEN BOOLEAN ELSE {TRUE}]

\* a board emptied down to the hand slot
EmptiedBoard(b) == << <<>> >>

\* solve takes &self and works on clones of the board
BoardAfterSolve(b) == b
InfoAfterSolve(info) == info

Returned(call, r) ==
  /\ status' = IF r.verdict = "Panic" THEN "panicked" ELSE status
  /\ solved' = IF r.verdict = "Panic" THEN solved
               ELSE [verdicts |-> Append(solved.verdicts, <<call, r.verdict>>),
                     solution |-> r.solution]
  /\ board' = BoardAfterSolve(board)
  /\ tiles_set_info' = InfoAfterSolve(tiles_set_info)

\* solver.solve()
Solve ==
  /\ status = "running"
  /\ ops < MaxSolves
  /\ ops' = ops + 1
  /\ last' = Call("Solve", 0, <<>>, <<>>)
  /\ \E h \in SolveHashers(Flatten(board)) : Returned("solve", solve(board, h))

\* solver.search(tiles, vec![], &mut HashSet::new()) on the tiles of the board
Search ==
  /\ status = "running"
  /\ ops < MaxSolves
  /\ ops' = ops + 1
  /\ last' = Call("Search", 0, <<>>, <<>>)
  /\ \E h \in SolveHashers(Flatten(board)) :
       Returned("search", SearchResult(search(Flatten(board), <<>>, {}, h)))

SolverNext == Solve \/ Search

SolverSpec == SolverInit /\ [][SolverNext]_vars

(***************************************************************************)
(* Game: single calls of its functions on a fresh Game                     *)
(***************************************************************************)
MaxRun == 6

\* the red tiles 1..n, each twice
RECURSIVE Doubled(_)
Doubled(n) == IF n = 0 THEN <<>> ELSE Doubled(n - 1) \o <<R(n), R(n)>>

\* the tile lists check_and_split is called on: sorted lists of one colour
\* with and without repeated tiles, runs up to the longest there is, sorted
\* lists of several colours, and the lists the operations carry
SplitInputs ==
  SubSeqs(Doubled(MaxRun))
    \cup {[k \in 1..n |-> R(k)] : n \in MaxRun..MAX_NUMBER}
    \cup {sort_unstable(t, TRUE) : t \in SubSeqs(<<H(1), H(1), B(1), B(1), O(1), O(1), R(1), R(1)>>)}
    \cup { <<H(1), H(1), B(1), B(1), O(1), O(1), R(1)>>,
           <<H(1), H(1), B(1), B(1), O(1), O(1), R(1), R(1)>>,
           <<H(1), H(2), B(3), B(4), O(5), O(6), R(7), R(8)>>,
           <<H(4), B(2), B(6), O(3), R(1), R(5)>>,
           <<H(1), H(2), H(3), B(1), O(1), R(1)>>,
           <<H(1), H(2), H(3), B(1), B(2), B(3), O(1)>> }
    \cup {t \in InputTiles : wildcard_count(t) = 0}

\* usize::MAX, the index of a command typed without one: no board is as long
USIZE_MAX == 2147483647

\* CommandCapture.idx is None: no index was typed
NoIndex == -1

MaxTyped == 3

\* what the command pattern lets through: a command letter of a, p, d, an
\* optional index, and the tiles of its arguments and tail
ParsedCommands == {"Add", "Put", "Draw"}
TypedIndexes == {NoIndex} \cup 0..MaxTyped
CommandTiles == { <<R(10)>>, <<B(2), B(1)>> }
CommandBoards == { << <<>> >>, << <<>>, <<R(10), R(11), R(12)>> >> }

\* the tiles a comparison is made on, and the pairs of them
CompareTiles ==
  {Tile(n, c, w) : n \in {1, 2, MAX_NUMBER}, c \in TileColor, w \in BOOLEAN}
    \cup {WildcardTile}
TilePairs == {<<a, b>> : a \in CompareTiles, b \in CompareTiles}

\* the sorted tile lists with one or two wildcards and a tile that is none,
\* as an Add to a table slot hands them to wildcard_to_tiles
WildInputs ==
  {sort_unstable(t, TRUE) :
     t \in {u \in SubSeqs(<<R(1), R(2), R(3), R(5), W, W>>)
                     \cup SubSeqs(<<H(1), B(1), O(1), R(1), W, W>>)
                     \cup { <<R(1), R(2), R(3), R(3), R(4), W>>,
                            <<H(1), B(1), B(1), O(1), R(1), W>> } :
               wildcard_count(u) \in {1, 2} /\ StripWildcards(u) # <<>>}}

UnitInputs == SplitInputs \cup TilePairs \cup WildInputs

UnitInit ==
  /\ \/ /\ board = << <<>> >>
        /\ last \in {Call("Input", 0, tiles, <<>>) : tiles \in UnitInputs}
     \/ /\ board \in CommandBoards
        /\ last \in {Call(cmd, idx, tiles, <<>>) :
                       cmd \in ParsedCommands, idx \in TypedIndexes, tiles \in CommandTiles}
  /\ tiles_set_info = GameInfo(board)
  /\ status = "running"
  /\ solved = NotSolved
  /\ ops = 0

\* the call has returned the tile sets r
UnitReturned(fn, r) ==
  /\ ops' = ops + 1
  /\ last' = [last EXCEPT !.cmd = fn]
  /\ solved' = [verdicts |-> <<>>, solution |-> r]
  /\ UNCHANGED <<board, tiles_set_info, status>>

\* game.check_and_split(tiles)
CheckAndSplit ==
  /\ ops = 0
  /\ last.cmd = "Input"
  /\ last.tiles \in SplitInputs
  /\ \E r \in CheckAndSplitOutcomes(last.tiles) : UnitReturned("check_and_split", r)

\* game.wildcard_to_tiles(tiles)
WildcardToTiles ==
  /\ ops = 0
  /\ last.cmd = "Input"
  /\ last.tiles \in WildInputs
  /\ \E r \in wildcard_to_tiles(last.tiles) : UnitReturned("wildcard_to_tiles", r)

\* Ordering, and bool, as the call returns them
Ordering(c) == IF c < 0 THEN "Less" ELSE IF c > 0 THEN "Greater" ELSE "Equal"
Bool(b) == IF b THEN "true" ELSE "false"

\* tile1 == tile2 and tile1.cmp(&tile2)
Compare ==
  /\ ops = 0
  /\ last.cmd = "Input"
  /\ last.tiles \in TilePairs
  /\ ops' = ops + 1
  /\ last' = [last EXCEPT !.cmd = "compare"]
  /\ solved' = [verdicts |-> << <<"eq", Bool(TileEq(last.tiles[1], last.tiles[2]))>>,
                               <<"cmp", Ordering(TileCmp(last.tiles[1], last.tiles[2]))>> >>,
                solution |-> <<>>]
  /\ UNCHANGED <<board, tiles_set_info, status>>

\* CommandCapture::as_tile_command: the index of the TileCommand
ParsedIndex(cmd, idx) ==
  IF idx # NoIndex THEN idx ELSE IF cmd = "Draw" THEN 0 ELSE USIZE_MAX

\* Game::validate_index
validate_index(b, idx) == idx < Len(b)

\* TileCommand::validate: the index is checked for Add and Replace only (the
\* arguments are taken as well-formed: the commands carry tiles)
validate(cmd, idx, b) ==
  IF cmd \in {"Add", "Replace"} /\ ~validate_index(b, idx) THEN "InvalidIndex" ELSE "Ok"

\* the commands whose branch of operate reads board[operation.index]
IndexesBoard(cmd) == cmd \in {"Add", "Draw", "Replace"}

\* command_capture_to_tile_command: as_tile_command, then validate
Validate ==
  /\ ops = 0
  /\ last.cmd \in ParsedCommands
  /\ ops' = ops + 1
  /\ last' = [last EXCEPT !.index = ParsedIndex(last.cmd, last.index)]
  /\ solved' = [verdicts |-> << <<"validate", validate(last'.cmd, last'.index, board)>> >>,
                solution |-> <<>>]
  /\ UNCHANGED <<board, tiles_set_info, status>>

\* game.operate(tile_command.to_tiles()) for a command validate accepted
Operate ==
  /\ ops = 1
  /\ last.cmd \in ParsedCommands
  /\ solved.verdicts = << <<"validate", "Ok">> >>
  /\ ops' = ops + 1
  /\ UNCHANGED last
  /\ IF ~IndexesBoard(last.cmd) THEN PutEffect(last.tiles)
     ELSE IF last.index < Len(board) THEN AddEffect(last.index, last.tiles)
     ELSE Panic

UnitNext == CheckAndSplit \/ WildcardToTiles \/ Compare \/ Validate \/ Operate

UnitSpec == UnitInit /\ [][UnitNext]_vars

(***************************************************************************)
(* TileCommand and the TUI: commands typed on the init page and the game   *)
(* page, and TileCommands built directly                                   *)
(***************************************************************************)
MaxEnters == 2

\* Option<T>
None == <<>>
Some(x) == <<x>>

\* Result<T, TileCommandError>
Ok(v) == [ok |-> TRUE, value |-> v, err |-> "Ok"]
Err(e) == [ok |-> FALSE, value |-> <<>>, err |-> e]

\* the decimal strings of the model and their values
DecimalValue ==
  "0" :> 0 @@ "1" :> 1 @@ "2" :> 2 @@ "3" :> 3 @@ "10" :> 10 @@ "11" :> 11
    @@ "12" :> 12 @@ "13" :> 13 @@ "14" :> 14 @@ "251" :> 251 @@ "256" :> 256

\* the strings of the model that are made of ASCII letters: all() holds of
\* the empty string
AlphabeticStrings == {"", "r", "b", "h", "o", "w", "x"}

\* s.chars().all(|ch| ch.is_ascii_alphabetic()), s.chars().all(|ch| ch.is_ascii_digit())
is_ascii_alphabetic(s) == s \in AlphabeticStrings
is_ascii_digit(s) == s = "" \/ s \in DOMAIN DecimalValue

\* s.parse::<usize>() and s.parse::<u8>()
ParseUsize(s) == IF s \in DOMAIN DecimalValue THEN Some(DecimalValue[s]) ELSE None
ParseU8(s) ==
  IF s \in DOMAIN DecimalValue /\ DecimalValue[s] <= U8_MAX THEN Some(DecimalValue[s])
  ELSE None

TileCommand(cmd, idx, args, tail, replace_args, replace_tail) ==
  [cmd |-> cmd, idx |-> idx, args |-> args, tail |-> tail,
   replace_args |-> replace_args, replace_tail |-> replace_tail]

\* CommandCapture: the command letter, the index as typed (None, or the
\* string), the arguments split at the commas, the tail
CommandCapture(cmd, idx, args, tail) ==
  [cmd |-> cmd, idx |-> idx, args |-> args, tail |-> tail]

\* CommandCapture::as_tile_command
as_tile_command(c) ==
  LET cmd == IF c.cmd = "a" THEN "Add" ELSE IF c.cmd = "p" THEN "Put" ELSE "Draw"
  IN  IF c.cmd \notin {"a", "p", "d"} THEN Err("InvalidCommand")
      ELSE IF c.idx # None /\ ParseUsize(c.idx[1]) = None THEN Err("InvalidIndex")
      ELSE Ok(TileCommand(cmd,
                          ParsedIndex(cmd, IF c.idx = None THEN NoIndex
                                           ELSE ParseUsize(c.idx[1])[1]),
                          c.args, c.tail, None, None))

\* TileCommand::validate_numbers: the arguments that are "w" or a u8 that is
\* 251 or within 1..=13 are counted; the value returned is self.args
validate_numbers(self, args) ==
  IF \A i \in 1..Len(args) :
       \/ args[i] = "w"
       \/ /\ ParseU8(args[i]) # None
          /\ ParseU8(args[i])[1] = WILDCARD_NUMBER \/ ParseU8(args[i])[1] \in 1..MAX_NUMBER
  THEN Ok(self.args)
  ELSE Err("InvalidArgs")

\* TileCommand::validate_colors
ColorArg(s) == s \in {"w", "r", "b", "h", "o"}

validate_colors(self, args) ==
  IF Len(SelectSeq(args, ColorArg)) = Len(args) THEN Ok(self.args) ELSE Err("InvalidArgs")

\* validate: the arguments are numbers when the tail is a colour
validate_args(self, tail, args) ==
  IF is_ascii_alphabetic(tail) THEN validate_numbers(self, args)
  ELSE validate_colors(self, args)

\* validate, the branch of Command::Replace, with the validated args
validate_replace(self, args) ==
  IF self.replace_tail = None \/ self.replace_args = None THEN Err("Other")
  ELSE IF ~validate_args(self, self.replace_tail[1], self.replace_args[1]).ok
  THEN Err("InvalidArgs")
  ELSE Ok(TileCommand(self.cmd, self.idx, args, self.tail,
                      Some(validate_args(self, self.replace_tail[1], self.replace_args[1]).value),
                      Some(self.replace_tail[1])))

\* TileCommand::validate on the game whose board is b
validate_command(self, b) ==
  IF validate(self.cmd, self.idx, b) # "Ok" THEN Err("InvalidIndex")
  ELSE IF ~validate_args(self, self.tail, self.args).ok THEN Err("InvalidArgs")
  ELSE IF self.cmd = "Replace"
  THEN validate_replace(self, validate_args(self, self.tail, self.args).value)
  ELSE Ok(TileCommand(self.cmd, self.idx, validate_args(self, self.tail, self.args).value,
                      self.tail, self.replace_args, self.replace_tail))

\* command_capture_to_tile_command
command_capture_to_tile_command(c, b) ==
  IF ~as_tile_command(c).ok THEN as_tile_command(c)
  ELSE validate_command(as_tile_command(c).value, b)

\* the commands of a batch that pass as_tile_command and validate
AcceptedOnly(commands, b) ==
  LET accepted == SelectSeq([i \in 1..Len(commands) |->
                               command_capture_to_tile_command(commands[i], b)],
                            LAMBDA r : r.ok)
  IN  Ok([i \in 1..Len(accepted) |-> accepted[i].value])

\* commands_capture_to_tile_commands: every command is converted and, when
\* none failed, every command is validated; the first failure fails the batch
commands_capture_to_tile_commands(commands, b) ==
  LET converted == [i \in 1..Len(commands) |-> as_tile_command(commands[i])]
      validated == [i \in 1..Len(commands) |-> validate_command(converted[i].value, b)]
      failed(results) == {i \in 1..Len(results) : ~results[i].ok}
  IN  IF failed(converted) # {} THEN Err(converted[MinOf(failed(converted))].err)
      ELSE IF failed(validated) # {} THEN Err(validated[MinOf(failed(validated))].err)
      ELSE Ok([i \in 1..Len(commands) |-> validated[i].value])

\* TilesGenerator: the tiles of the arguments; a panic when an argument or
\* the tail is none of the strings the generator matches
ColorOf(s) ==
  IF s = "r" THEN "Red" ELSE IF s = "b" THEN "Blue"
  ELSE IF s = "h" THEN "Black" ELSE "Orange"

\* what a generator returns, or its panic
Generated(panic, tiles) == [panic |-> panic, tiles |-> tiles]

generate_numbers_tiles(args, color) ==
  IF \E i \in 1..Len(args) : args[i] # "w" /\ ParseU8(args[i]) = None THEN Generated(TRUE, <<>>)
  ELSE Generated(FALSE, [i \in 1..Len(args) |->
                    IF args[i] = "w" THEN WildcardTile
                    ELSE Tile(ParseU8(args[i])[1], color, FALSE)])

generate_colors_tiles(args, num) ==
  IF \E i \in 1..Len(args) : ~ColorArg(args[i]) THEN Generated(TRUE, <<>>)
  ELSE Generated(FALSE, [i \in 1..Len(args) |->
                    IF args[i] = "w" THEN WildcardTile
                    ELSE Tile(num, ColorOf(args[i]), FALSE)])

\* to_tiles: the tiles of a command that is no Replace
to_tiles(self) ==
  IF is_ascii_alphabetic(self.tail)
  THEN IF self.tail \notin {"r", "b", "h", "o"} THEN Generated(TRUE, <<>>)
       ELSE generate_numbers_tiles(self.args, ColorOf(self.tail))
  ELSE IF ~is_ascii_digit(self.tail) THEN Generated(FALSE, <<>>)
  ELSE IF ParseU8(self.tail) = None THEN Generated(TRUE, <<>>)
  ELSE generate_colors_tiles(self.args, ParseU8(self.tail)[1])

\* what parse_init captures: commands a0(number)color
InitNumbers == {"1", "2", "w", "14"}
InitColors == {"r", "b"}
InitCaptures ==
  {CommandCapture("a", Some("0"), <<n>>, c) : n \in InitNumbers, c \in InitColors}
InitBatches == {<<c>> : c \in InitCaptures} \cup {<<c, d>> : c \in InitCaptures, d \in InitCaptures}

\* what parse captures on the game page
TypedArgs == { <<"10", "11", "12">>, <<"r", "b", "h">>, <<"1">>, <<"w">>, <<"14">>, <<"x">>, <<"">> }
GameCaptures ==
  {CommandCapture(l, i, a, t) :
     l \in {"a", "p", "d"}, i \in {None, Some("0"), Some("1"), Some("3"), Some("d")},
     a \in TypedArgs, t \in {"r", "10"}}

\* the TileCommands a caller builds directly
BuiltCommands ==
  {TileCommand(c, i, a, t, ra, rt) :
     c \in {"Put", "Add", "Replace"}, i \in {0, 1},
     a \in { <<"h">>, <<"1">>, <<"10", "11", "12">>, <<"14">> }, t \in {"r", "10"},
     ra \in {None, Some(<<"1">>), Some(<<"h">>), Some(<<"x">>)},
     rt \in {None, Some("h"), Some("10")}}

\* the hand after the Adds of a batch, one tile each, to slot 0
RECURSIVE HandsAfter(_, _)
HandsAfter(hand, operations) ==
  IF operations = <<>> THEN {hand}
  ELSE UNION {HandsAfter(ext, Tail(operations)) :
                ext \in SortOutcomes(hand \o Head(operations).tiles)}

\* display_error: the game is not touched
display_error(e, typed) ==
  /\ last' = Call(e, 0, typed, <<>>)
  /\ UNCHANGED <<board, tiles_set_info, status, solved>>

\* Enter on the init page, the buffer matched by parse_init as the batch
\* commands, or by nothing
EnterInit ==
  /\ status = "running"
  /\ ops < MaxEnters
  /\ board = << <<>> >>
  /\ ops' = ops + 1
  /\ \/ display_error("InvalidFormat", <<>>)
     \/ \E commands \in InitBatches :
          LET r == commands_capture_to_tile_commands(commands, board)
          IN  IF ~r.ok THEN display_error(r.err, commands)
              ELSE /\ last' = Call("EnterInit", 0, commands, <<>>)
                   /\ IF \E i \in 1..Len(r.value) : to_tiles(r.value[i]).panic
                      THEN Panic
                      ELSE /\ board' \in
                                {[board EXCEPT ![1] = hand] :
                                   hand \in HandsAfter(board[1],
                                              [i \in 1..Len(r.value) |-> to_tiles(r.value[i])])}
                           /\ UNCHANGED <<tiles_set_info, status, solved>>

\* game.operate(tile_command.to_tiles())
OperateCommand(self, generated) ==
  IF generated.panic THEN Panic
  ELSE IF ~IndexesBoard(self.cmd) THEN PutEffect(generated.tiles)
  ELSE IF self.idx < Len(board) THEN AddEffect(self.idx, generated.tiles)
  ELSE Panic

\* Enter on the game page, the buffer being "solve", matched by parse as the
\* command c, or by nothing
EnterGame ==
  /\ status = "running"
  /\ ops < MaxEnters
  /\ board # << <<>> >>
  /\ ops' = ops + 1
  /\ \/ /\ last' = Call("SolverPage", 0, <<>>, <<>>)
        /\ UNCHANGED <<board, tiles_set_info, status, solved>>
     \/ display_error("InvalidFormat", <<>>)
     \/ \E c \in GameCaptures :
          LET r == command_capture_to_tile_command(c, board)
          IN  IF ~r.ok THEN display_error(r.err, <<c>>)
              ELSE /\ last' = Call("EnterGame", r.value.idx, <<c>>, <<>>)
                   /\ Len(board) < MaxSlots
                   /\ OperateCommand(r.value, to_tiles(r.value))

\* command.validate(&game) on a TileCommand built directly
ValidateCommand ==
  /\ status = "running"
  /\ ops < MaxEnters
  /\ ops' = ops + 1
  /\ \E self \in BuiltCommands :
       LET r == validate_command(self, board)
       IN  /\ last' = Call("validate", self.idx, <<self>>, <<>>)
           /\ solved' = [verdicts |-> << <<"validate", r.err>> >>,
                         solution |-> IF r.ok THEN <<r.value>> ELSE <<>>]
  /\ UNCHANGED <<board, tiles_set_info, status>>

CommandNext == EnterInit \/ EnterGame \/ ValidateCommand

CommandSpec == Init /\ [][CommandNext]_vars

(***************************************************************************)
(* Properties of the Game                                                  *)
(***************************************************************************)
\* how often the tile t (number, colour and flag) occurs in tiles
CountOf(t, tiles) == Cardinality({i \in 1..Len(tiles) : tiles[i] = t})

\* a and b hold the same tiles, as multisets
SameTiles(a, b) ==
  /\ Len(a) = Len(b)
  /\ \A t \in Range(a) \cup Range(b) : CountOf(t, a) = CountOf(t, b)

\* the numbers and colours of the tiles of a tile list that are no wildcards
PlainNumbers(tiles) == {t.number : t \in {u \in Range(tiles) : ~u.is_wildcard}}
PlainColors(tiles) == {t.color : t \in {u \in Range(tiles) : ~u.is_wildcard}}

\* C1: in every reachable Game state board and tiles_set_info have the same
\* length.
C1_LenInvariant == Len(board) = Len(tiles_set_info)

\* C9: Put(tiles) with non-empty tiles appends exactly one slot, which holds
\* exactly the given tiles in Tile order, and one TileSetInfo whose type and
\* (min, max) range are those of the given tiles; the slots and entries
\* that were there stay as they were.
PutPost(tiles) ==
  LET n == Len(board)
      slot == board'[n + 1]
      info == tiles_set_info'[Len(tiles_set_info) + 1]
  IN /\ Len(board') = n + 1
     /\ SubSeq(board', 1, n) = board
     /\ SameTiles(slot, tiles)
     /\ IsSorted(slot)
     /\ Len(tiles_set_info') = Len(tiles_set_info) + 1
     /\ SubSeq(tiles_set_info', 1, Len(tiles_set_info)) = tiles_set_info
     /\ info.tiles_type = "PureColor" <=> Cardinality(PlainColors(tiles)) = 1
     /\ PlainNumbers(tiles) # {} =>
          /\ info.start \in PlainNumbers(tiles)
          /\ info.end \in PlainNumbers(tiles)
          /\ \A k \in PlainNumbers(tiles) : info.start <= k /\ k <= info.end

C9_PutAppendsSortedSlot ==
  [][ops' = ops + 1 /\ last'.cmd = "Put" /\ last'.tiles # <<>> => PutPost(last'.tiles)]_vars

\* C9, witness: the scenario of the specification, Put [10R, 11R, 12R] on a
\* new Game.
C9_Witness ==
  /\ last.cmd = "Put"
  /\ board = << <<>>, <<R(10), R(11), R(12)>> >>
  /\ Len(tiles_set_info) = 2
  /\ tiles_set_info[2] = TileSetInfo("PureColor", 10, 12, "Red")

\* C10: Replace(index, replace_tiles) with as many replace tiles as slot
\* index has wildcards leaves slot index with the same length, sorted, with no
\* wildcard-flagged tile, holding its former non-wildcard tiles together
\* with the replace tiles (flag cleared).
Unflag(tiles) == [k \in 1..Len(tiles) |-> Tile(tiles[k].number, tiles[k].color, FALSE)]

ReplacePost(index, replace_tiles) ==
  LET old == board[index + 1]
      new == board'[index + 1]
  IN /\ Len(new) = Len(old)
     /\ wildcard_count(new) = 0
     /\ IsSorted(new)
     /\ SameTiles(new, StripWildcards(old) \o Unflag(replace_tiles))

C10_ReplaceSubstitutes ==
  [][( /\ ops' = ops + 1
       /\ last'.cmd = "Replace"
       /\ wildcard_count(board[last'.index + 1]) = Len(last'.replace_tiles)
       /\ status' = "running" )
     => ReplacePost(last'.index, last'.replace_tiles)]_vars

\* C10, witness: a Replace has put two replace tiles in the place of the
\* two wildcards of a table slot.
C10_Witness ==
  /\ last.cmd = "Replace"
  /\ last.index >= 1
  /\ last.replace_tiles = <<B(13), H(1)>>
  /\ status = "running"
  /\ wildcard_count(board[last.index + 1]) = 0
  /\ \E i \in 1..Len(board[last.index + 1]), j \in 1..Len(board[last.index + 1]) :
       /\ board[last.index + 1][i] = B(13)
       /\ board[last.index + 1][j] = H(1)

\* C11: a Replace on slot index whose replace_tiles differ in number from the
\* wildcards of that slot is a silent no-op: board and tiles_set_info stay
\* as they were and no error is reported (operate returns normally).
C11_ReplaceMismatchIsNoOp ==
  [][(/\ ops' = ops + 1
      /\ last'.cmd = "Replace"
      /\ wildcard_count(board[last'.index + 1]) # Len(last'.replace_tiles))
     => (/\ board' = board
         /\ tiles_set_info' = tiles_set_info
         /\ status' = status
         /\ status' = "running")]_vars

\* C11, witness: a Replace carrying two tiles has returned on a table slot
\* that holds one wildcard
C11_Witness ==
  /\ last.cmd = "Replace"
  /\ last.index >= 1
  /\ Len(last.replace_tiles) = 2
  /\ wildcard_count(board[last.index + 1]) = 1
  /\ status = "running"

\* the table slots (1-based positions from 2) the step wrote or created
Touched(i) == i > Len(board) \/ board'[i] # board[i]

\* C12: after any operate call every table slot the operation touched or
\* created is sorted by Tile ordering, the slots a split of a mixed-colour
\* set of six tiles or more produced included, whatever order the colour
\* hash map is iterated in.
C12_TouchedSlotsSorted ==
  [][(ops' = ops + 1 /\ last'.cmd \in {"Put", "Replace", "Add"} /\ status' = "running")
     => \A i \in 2..Len(board') : Touched(i) => IsSorted(board'[i])]_vars

\* C15: reset() returns the Game to the empty initial state, the one that
\* Game::new() builds: board is [[]] and tiles_set_info holds exactly the one
\* default entry.
C15_ResetRestoresNew ==
  [][(ops' = ops + 1 /\ last'.cmd = "Reset")
     => (board' = << <<>> >> /\ tiles_set_info' = <<DefaultInfo>>)]_vars

\* info is the metadata of tiles: PureColor iff the tiles that are no
\* wildcards have exactly one colour, the range their least and greatest
\* number, a colour iff PureColor
IsInfoOf(info, tiles) ==
  /\ info.tiles_type = "PureColor" <=> Cardinality(PlainColors(tiles)) = 1
  /\ info.tiles_type \in {"PureColor", "MixedColor"}
  /\ PlainNumbers(tiles) # {} =>
       /\ info.start \in PlainNumbers(tiles)
       /\ info.end \in PlainNumbers(tiles)
       /\ \A k \in PlainNumbers(tiles) : info.start <= k /\ k <= info.end
  /\ info.color # "None" <=> info.tiles_type = "PureColor"

\* C18: after any sequence of operate calls from Game::new(), without reset,
\* for every slot i >= 1 tiles_set_info[i] is the metadata computed from the
\* current board[i].
C18_InfoMatchesBoard ==
  \A i \in 2..Len(board) :
    i <= Len(tiles_set_info) /\ IsInfoOf(tiles_set_info[i], board[i])

\* C18, witness: [10R, 11R, 12R] was put and 5R added to it; the metadata of
\* the slot is PureColor, 5..12, Red
C18_Witness ==
  /\ last.cmd = "Add"
  /\ last.index = 1
  /\ Len(board) >= 2
  /\ board[2] = <<R(5), R(10), R(11), R(12)>>
  /\ tiles_set_info[2] = TileSetInfo("PureColor", 5, 12, "Red")

\* the step is an Add (or Draw) of last'.tiles to the table slot last'.index
\* whose extended content holds at most 2 wildcards and a tile that is none
AddToTableSlot ==
  /\ ops' = ops + 1
  /\ last'.cmd = "Add"
  /\ last'.index >= 1
  /\ wildcard_count(board[last'.index + 1] \o last'.tiles) <= 2
  /\ StripWildcards(board[last'.index + 1] \o last'.tiles) # <<>>

C21_NumbersInRange ==
  \A i \in 1..Len(board) : \A j \in 1..Len(board[i]) :
    board[i][j].number \in (1..MAX_NUMBER) \cup {WILDCARD_NUMBER}


\* C28: operate never removes a slot and never changes an existing slot other
\* than its target: Put leaves every existing slot as it was, Add, Draw and
\* Replace leave every existing slot other than slot index as it was, Add and
\* Draw on the hand (index 0) add no slot, and new melds are only appended at
\* the end, so the length of the board never decreases under operate.
C28_OperateKeepsOtherSlots ==
  [][(ops' = ops + 1 /\ last'.cmd \in {"Put", "Add", "Replace"})
     => (/\ Len(board') >= Len(board)
         /\ \A j \in 1..Len(board) :
              (last'.cmd = "Put" \/ j # last'.index + 1) => board'[j] = board[j]
         /\ (last'.cmd = "Add" /\ last'.index = 0) => Len(board') = Len(board))]_vars

\* C28, witness: an Add on a table slot of a board of three slots or more has
\* appended a slot and left the slots that are not its target as they were
C28_Witness ==
  /\ last.cmd = "Add"
  /\ last.index = 1
  /\ Len(last.tiles) >= 1
  /\ Len(board) = 4
  /\ board[3] # <<>>
  /\ Len(board[4]) >= 3
  /\ status = "running"

(***************************************************************************)
(* Properties of the Solver                                                *)
(***************************************************************************)
\* the tiles of hand and table
Pool == Flatten(board)

\* the last call was solve() and it returned
SolveReturned ==
  /\ last.cmd = "Solve"
  /\ status = "running"

LastVerdict == solved.verdicts[Len(solved.verdicts)][2]

SolveReturnedSome == SolveReturned /\ LastVerdict = "Some"

\* the tiles of a that are no wildcards are those of b, by number and
\* colour, and a holds as many wildcard-flagged tiles as b
SamePool(a, b) ==
  /\ Len(a) = Len(b)
  /\ SameTiles(StripWildcards(a), StripWildcards(b))
  /\ wildcard_count(a) = wildcard_count(b)

\* a run: at least 3 tiles of one colour whose numbers count up by one
ValidRun(m) ==
  /\ Len(m) >= 3
  /\ \A i \in 1..Len(m) : m[i].color = m[1].color
  /\ \A i \in 1..(Len(m) - 1) : m[i + 1].number = m[i].number + 1

\* a group as the validity predicate has it: at least 3 tiles, at least 3
\* distinct colours
ValidGroup(m) ==
  /\ Len(m) >= 3
  /\ Cardinality({m[i].color : i \in 1..Len(m)}) >= 3

\* a group of the game: 3 or 4 tiles of one number, each of its own colour
GameGroup(m) ==
  /\ Len(m) >= 3
  /\ \A i \in 1..Len(m) : m[i].number = m[1].number
  /\ \A i, j \in 1..Len(m) : i # j => m[i].color # m[j].color

\* the tiles of s at the positions of I, in order
Pick(s, I) == SelectSeq([i \in 1..Len(s) |-> IF i \in I THEN <<s[i]>> ELSE <<>>],
                        LAMBDA x : x # <<>>)

TilesAt(s, I) == [k \in 1..Len(Pick(s, I)) |-> Pick(s, I)[k][1]]

\* tiles (no wildcards) can be partitioned into runs and groups of the game:
\* the first tile is in some meld, and the rest can be partitioned
RECURSIVE CanPartition(_)
CanPartition(tiles) ==
  \/ tiles = <<>>
  \/ /\ Len(tiles) >= 3
     /\ \E I \in SUBSET (2..Len(tiles)) :
          /\ Cardinality(I) >= 2
          /\ LET m == sort_unstable(TilesAt(tiles, I \cup {1}), TRUE)
             IN ValidRun(m) \/ GameGroup(m)
          /\ CanPartition(TilesAt(tiles, (2..Len(tiles)) \ I))

AtMostTwoCopies(tiles) ==
  \A i \in 1..Len(tiles) :
    Cardinality({j \in 1..Len(tiles) : TileEq(tiles[j], tiles[i])}) <= 2

\* C2: whenever solve() returns Some(partition), the tiles of the partition
\* are, as a multiset, the tiles of hand plus table, one wildcard-flagged
\* tile standing for each wildcard.
C2_PartitionPreservesTiles ==
  SolveReturnedSome => SamePool(Flatten(solved.solution), Pool)

\* C3: whenever solve() returns Some(partition), every meld of the partition
\* is a valid run or a valid group.
C3_PartitionIsSound ==
  SolveReturnedSome =>
    \A k \in 1..Len(solved.solution) :
      ValidRun(solved.solution[k]) \/ ValidGroup(solved.solution[k])

\* C4: on a board without wildcards, with a non-empty hand and at most two
\* copies of each tile, whose tiles can be partitioned into runs and groups,
\* solve() returns Some.
C4_FeasibleIsSolved ==
  ( /\ SolveReturned
    /\ board[1] # <<>>
    /\ wildcard_count(Pool) = 0
    /\ AtMostTwoCopies(Pool)
    /\ CanPartition(Pool) )
  => LastVerdict = "Some"

\* the case of C5: an empty table and a non-empty hand without wildcards
\* that cannot be partitioned, and a call that has returned
InfeasibleHand ==
  /\ Len(board) = 1
  /\ board[1] # <<>>
  /\ wildcard_count(board[1]) = 0
  /\ ~CanPartition(board[1])

AllVerdictsNone ==
  /\ status = "running"
  /\ \A i \in 1..Len(solved.verdicts) : solved.verdicts[i][2] = "None"

C7_EmptyHandIsSolved ==
  (last.cmd = "Solve" /\ board[1] = <<>>)
  => /\ SolveReturnedSome
     /\ solved.solution = SubSeq(board, 2, Len(board))

\* C8: solve() leaves the board and tiles_set_info of the Game as they were.
C8_SolveDoesNotMutate ==
  [][last'.cmd = "Solve" => (board' = board /\ tiles_set_info' = tiles_set_info)]_vars

C8_Witness ==
  /\ SolveReturned
  /\ Len(board) = 3
  /\ board[1] # <<>>
  /\ LastVerdict = "Some"

\* the last call was search on the tiles of the board and it returned Some
SearchReturnedSome ==
  /\ last.cmd = "Search"
  /\ status = "running"
  /\ LastVerdict = "Some"

\* the call took a shortcut: for some hash order and tie-break the runs
\* extracted from the pool leave nothing and are what was returned, or they
\* leave something, the groups leave nothing and are what was returned
ShortcutOf(pure, mixed) ==
  /\ ~pure.panic
  /\ \/ pure.leave = <<>> /\ solved.solution = pure.sets
     \/ pure.leave # <<>> /\ mixed.leave = <<>> /\ solved.solution = mixed.sets

ShortcutTaken ==
  /\ Len(Pool) > 2
  /\ \E h \in SolveHashers(Pool) :
       ShortcutOf(get_available_pure_color_tiles_sets(Pool, h.wf),
                  get_available_mixed_colors_tiles_sets(Pool, h.ord))

\* every tile of pool is placed in the melds: each tile that is no wildcard
\* as often as the pool holds it, and a flagged tile for every wildcard
Placed(pool, melds) ==
  /\ \A t \in Range(StripWildcards(pool)) :
       CountOf(t, StripWildcards(pool)) <= CountOf(t, StripWildcards(Flatten(melds)))
  /\ wildcard_count(pool) <= wildcard_count(Flatten(melds))

\* C23: search takes the shortcut to success only when the extracted runs
\* alone, or the extracted groups alone, contain every tile of the pool: for
\* a non-empty pool it never returns success after appending a family of
\* melds that leaves some pool tile unplaced.
C23_ShortcutPlacesPool ==
  (SearchReturnedSome /\ ShortcutTaken) => Placed(Pool, solved.solution)

\* no shortcut applies to the pool, some group was extracted, and the search
\* that tries the first group as the next move succeeds
FirstGroupSucceeds(pure, mixed, h) ==
  /\ ~pure.panic
  /\ pure.leave # <<>>
  /\ mixed.leave # <<>>
  /\ mixed.sets # <<>>
  /\ search(Remaining(Pool, mixed.sets[1]), <<mixed.sets[1]>>, {}, h).res = "Some"

\* the groups extracted from the pool
GroupsOf(mixed) == Range(mixed.sets)

\* C24: in search, when no shortcut applies, every mixed-colour (group)
\* candidate is tried as the next move before any pure-colour (run)
\* candidate: when the first group leads to success, the partition returned
\* starts with it.
C24_GroupsTriedFirst ==
  (/\ SearchReturnedSome
   /\ Len(Pool) > 2
   /\ Cardinality(SolveHashers(Pool)) = 1)
  => \A h \in SolveHashers(Pool) :
       FirstGroupSucceeds(get_available_pure_color_tiles_sets(Pool, h.wf),
                          get_available_mixed_colors_tiles_sets(Pool, h.ord), h)
       => solved.solution[1] \in GroupsOf(get_available_mixed_colors_tiles_sets(Pool, h.ord))

\* search once more, with the memo lookups on (memo) or disabled, and with a
\* record of its recursion: res is the verdict, cache the memo after the call,
\* hits the pools that returned None on a memo hit, depth the longest chain of
\* nested recursive calls below the call; res is "Diverges" when a recursive
\* call would receive a pool that is not smaller than its caller's
Probed(res, cache, hits, depth) ==
  [res |-> res, cache |-> cache, hits |-> hits, depth |-> depth]

Deeper(a, b) == IF a >= b THEN a ELSE b

RECURSIVE ProbeSearch(_, _, _, _)
RECURSIVE ProbeFamilies(_, _, _, _, _, _)
RECURSIVE ProbeTry(_, _, _, _, _)
RECURSIVE ProbeCall(_, _, _, _, _, _)
RECURSIVE ProbeNext(_, _, _, _, _, _)
ProbeSearch(tiles, cache, h, memo) ==
  IF tiles = <<>> THEN Probed("Some", cache, {}, 0)
  ELSE IF memo /\ tiles_to_string(tiles) \in cache THEN Probed("None", cache, {tiles}, 0)
  ELSE IF Len(tiles) <= 2 THEN Probed("None", cache, {}, 0)
  ELSE ProbeFamilies(tiles, cache, h, memo,
                     get_available_pure_color_tiles_sets(tiles, h.wf),
                     get_available_mixed_colors_tiles_sets(tiles, h.ord))

ProbeFamilies(tiles, cache, h, memo, pure, mixed) ==
  IF pure.panic THEN Probed("Panic", cache, {}, 0)
  ELSE IF pure.leave = <<>> \/ mixed.leave = <<>> THEN Probed("Some", cache, {}, 0)
  ELSE ProbeTry(tiles, pure.sets \o mixed.sets, h, memo, Probed("None", cache, {}, 0))

\* acc: the memo, the hits and the depth of the candidates tried so far
ProbeTry(tiles, candidates, h, memo, acc) ==
  IF candidates = <<>>
  THEN Probed("None", acc.cache \cup {tiles_to_string(tiles)}, acc.hits, acc.depth)
  ELSE ProbeCall(tiles, Tail(candidates), h, memo, acc,
                 Remaining(tiles, Head(candidates)))

ProbeCall(tiles, rest, h, memo, acc, remaining) ==
  IF Len(remaining) >= Len(tiles)
  THEN Probed("Diverges", acc.cache, acc.hits, acc.depth)
  ELSE ProbeNext(tiles, rest, h, memo, acc,
                 ProbeSearch(remaining, acc.cache, h, memo))

ProbeNext(tiles, rest, h, memo, acc, r) ==
  IF r.res = "None"
  THEN ProbeTry(tiles, rest, h, memo,
                Probed("None", r.cache, acc.hits \cup r.hits, Deeper(acc.depth, r.depth + 1)))
  ELSE Probed(r.res, r.cache, acc.hits \cup r.hits, Deeper(acc.depth, r.depth + 1))

\* the verdict of search with the memo lookups disabled
NoMemoSearch(tiles, h) == ProbeSearch(tiles, {}, h, FALSE).res

\* the pools found in the memo during search(tiles) for which the search
\* with the memo lookups disabled does not fail
BadHits(tiles, h) ==
  {p \in ProbeSearch(tiles, {}, h, TRUE).hits : NoMemoSearch(p, h) # "None"}

\* the last call was search on the tiles of the board and it returned
SearchReturned ==
  /\ last.cmd = "Search"
  /\ status = "running"

\* C25: memoization never changes the verdict of search: for every pool,
\* search with the memo returns Some iff the same search with the memo
\* lookups disabled returns Some, and a memo hit occurs only for a pool on
\* which the search with the lookups disabled fails, pools that differ from
\* the recorded one in their number of wildcards included.
C25_MemoKeepsVerdict ==
  SearchReturned =>
    \E h \in SolveHashers(Pool) :
      /\ ProbeSearch(Pool, {}, h, TRUE).res = LastVerdict
      /\ LastVerdict = "Some" <=> NoMemoSearch(Pool, h) = "Some"
      /\ BadHits(Pool, h) = {}


\* C26: search terminates on every pool: each recursive call receives a pool
\* strictly smaller than its caller's (every candidate tried removes at least
\* one tile), so the recursion is never deeper than the pool is long.
C26_SearchShrinksPool ==
  SearchReturned =>
    \A h \in SolveHashers(Pool) : \A memo \in BOOLEAN :
      /\ ProbeSearch(Pool, {}, h, memo).res # "Diverges"
      /\ ProbeSearch(Pool, {}, h, memo).depth <= Len(Pool)

\* search returned after at least two nested recursive calls
C26_Witness ==
  /\ SearchReturned
  /\ \E h \in SolveHashers(Pool) : ProbeSearch(Pool, {}, h, TRUE).depth >= 2


\* the table slots solve() sets aside as completed when the picks run under
\* h: the slots pick_relevant_tiles finds relevant to no leftover hand tile
CompletedSlots(h) ==
  LET picked == pick_available(board[1], h)
      table  == SubSeq(board, 2, Len(board))
  IN  {i \in 2..Len(board) :
         (i - 1) \notin relevant_index(table \o picked.sets, picked.leave)}

\* C27: when solve() returns Some, every table meld that was set aside as
\* completed appears in the returned partition as a meld with exactly its
\* original tiles.
C27_CompletedMeldsKept ==
  SolveReturnedSome =>
    \E h \in SolveHashers(Pool) :
      \A i \in CompletedSlots(h) :
        \E k \in 1..Len(solved.solution) : SameTiles(solved.solution[k], board[i])

(***************************************************************************)
(* Properties of single calls                                              *)
(***************************************************************************)
\* no tile occurs twice in tiles
NoDuplicate(tiles) ==
  \A i, j \in 1..Len(tiles) : i # j => ~TileEq(tiles[i], tiles[j])

\* C13: check_and_split of at most 5 tiles, or of a single valid run or valid
\* group of any length without a duplicate tile, returns a list of length 1
\* whose only element is the input unchanged.
C13_SplitIsFixpoint ==
  (/\ last.cmd = "check_and_split"
   /\ \/ Len(last.tiles) <= 5
      \/ (ValidRun(last.tiles) \/ ValidGroup(last.tiles)) /\ NoDuplicate(last.tiles))
  => solved.solution = <<last.tiles>>

\* the pairs of positions of tiles that hold equal tiles
DuplicatePairs(tiles) ==
  {ij \in (1..Len(tiles)) \X (1..Len(tiles)) :
     ij[1] < ij[2] /\ TileEq(tiles[ij[1]], tiles[ij[2]])}

\* a sorted list of six tiles of one colour with exactly one duplicated tile
SixWithOneDuplicate(tiles) ==
  /\ Len(tiles) = 6
  /\ \A i \in 1..Len(tiles) : tiles[i].color = tiles[1].color
  /\ IsSorted(tiles)
  /\ Cardinality(DuplicatePairs(tiles)) = 1

\* C14: check_and_split of a sorted pure-colour set of 6 tiles with exactly
\* one duplicated tile, whose second copy sits at index p, returns exactly
\* two non-empty groups: the tiles at the indices 0..p-1, and the tile at
\* index p with every tile after it (p is position p + 1 here).
C14_SplitAtDuplicate ==
  (last.cmd = "check_and_split" /\ SixWithOneDuplicate(last.tiles))
  => LET second == (CHOOSE ij \in DuplicatePairs(last.tiles) : TRUE)[2]
     IN /\ solved.solution =
             << SubSeq(last.tiles, 1, second - 1), SubSeq(last.tiles, second, 6) >>
        /\ solved.solution[1] # <<>>
        /\ solved.solution[2] # <<>>

\* C14, witness: [1R, 2R, 3R, 3R, 4R, 5R] has been split before the second 3R
C14_Witness ==
  /\ last.cmd = "check_and_split"
  /\ last.tiles = <<R(1), R(2), R(3), R(3), R(4), R(5)>>
  /\ solved.solution = << <<R(1), R(2), R(3)>>, <<R(3), R(4), R(5)>> >>

\* validate has accepted the command last
Accepted == solved.verdicts = << <<"validate", "Ok">> >>

\* C16: every command validate accepts has an existing slot index whenever
\* operate indexes the board with it (Add, Draw and Replace): idx is below
\* board.len(), so applying the validated operation never reads a slot out of
\* bounds.
C16_AcceptedIndexExists ==
  (Accepted /\ last.cmd \in {"Add", "Draw", "Replace"})
  => (last.index < Len(board) /\ status = "running")

\* the colours from the lowest to the highest
ColourOrder == <<"Black", "Blue", "Orange", "Red">>
Position(c) == CHOOSE i \in 1..4 : ColourOrder[i] = c

\* a comes before b: by colour, then by number
Before(a, b) ==
  \/ Position(a.color) < Position(b.color)
  \/ a.color = b.color /\ a.number < b.number

\* C17: equality and ordering of tiles both ignore the wildcard flag: two
\* tiles are equal iff they have the same number and colour; tiles are ordered
\* by colour rank (Black < Blue < Orange < Red), then by number; cmp returns
\* Equal exactly when the tiles are equal.
C17_TileEqAndOrd ==
  last.cmd = "compare" =>
    LET a == last.tiles[1]
        b == last.tiles[2]
        eq == solved.verdicts[1][2]
        cmp == solved.verdicts[2][2]
    IN /\ eq = "true" <=> (a.number = b.number /\ a.color = b.color)
       /\ cmp = "Less" <=> Before(a, b)
       /\ cmp = "Greater" <=> Before(b, a)
       /\ cmp = "Equal" <=> eq = "true"

\* C17, witness: the tiles of test1, 1R flagged and 1R plain, have compared
\* equal
C17_Witness ==
  /\ last.cmd = "compare"
  /\ last.tiles = <<Tile(1, "Red", TRUE), Tile(1, "Red", FALSE)>>
  /\ solved.verdicts = << <<"eq", "true">>, <<"cmp", "Equal">> >>

\* the candidate assignments for the wildcards of all_tiles, in enumeration
\* order: the first wildcard in the outer loop, the second in the inner one;
\* numbers ascending for a remainder of one colour, colours in their order
\* for a remainder of several
CandidateList(all_tiles) ==
  LET tiles == StripWildcards(all_tiles)
      wc == wildcard_count(all_tiles)
      color == tiles[1].color
      number == tiles[1].number
      low == Max2(1, MinNumber(tiles) - 1)
      high == Min2(13, MaxNumber(tiles) + 1)
      n1 == high - low + 1
      n2 == high - low + 3
  IN IF Cardinality(PlainColors(all_tiles)) = 1
     THEN IF wc = 1
          THEN [k \in 1..n1 |-> <<Tile(low + k - 1, color, TRUE)>>]
          ELSE [k \in 1..(n1 * n2) |->
                  <<Tile(low + ((k - 1) \div n2), color, TRUE),
                    Tile(low - 1 + ((k - 1) % n2), color, TRUE)>>]
     ELSE IF wc = 1
          THEN [k \in 1..4 |-> <<Tile(number, ColourOrder[k], TRUE)>>]
          ELSE [k \in 1..16 |->
                  <<Tile(number, ColourOrder[((k - 1) \div 4) + 1], TRUE),
                    Tile(number, ColourOrder[((k - 1) % 4) + 1], TRUE)>>]

\* the splits the candidate extra can give, and whether all its groups are
\* valid: runs for a remainder of one colour, groups otherwise
CandidateSplits(all_tiles, extra) == TryOutcomes(StripWildcards(all_tiles), extra)

AllGroupsValid(all_tiles, split) ==
  IF Cardinality(PlainColors(all_tiles)) = 1
  THEN \A k \in 1..Len(split) : ValidRunSeq(split[k])
  ELSE \A k \in 1..Len(split) : ValidGroup(split[k])

CandidateValid(all_tiles, extra) ==
  \A split \in CandidateSplits(all_tiles, extra) : AllGroupsValid(all_tiles, split)

\* the positions of the valid candidates in the enumeration
ValidPositions(all_tiles) ==
  {k \in 1..Len(CandidateList(all_tiles)) :
     CandidateValid(all_tiles, CandidateList(all_tiles)[k])}

\* C20: wildcard_to_tiles with 1 or 2 wildcards returns the split of the
\* first candidate assignment, in enumeration order, whose resulting groups
\* are all valid; a later candidate never replaces an earlier valid one.
C20_FirstValidCandidateWins ==
  (/\ last.cmd = "wildcard_to_tiles"
   /\ ValidPositions(last.tiles) # {})
  => LET first == CHOOSE k \in ValidPositions(last.tiles) :
                    \A m \in ValidPositions(last.tiles) : k <= m
     IN solved.solution \in CandidateSplits(last.tiles, CandidateList(last.tiles)[first])

\* no colour occurs more than twice in tiles
AtMostTwicePerColour(tiles) ==
  \A c \in TileColor : Cardinality({i \in 1..Len(tiles) : tiles[i].color = c}) <= 2

\* no colour occurs twice in half
DistinctColours(half) ==
  \A i, j \in 1..Len(half) : i # j => half[i].color # half[j].color

\* C22: split_mixed_colors_tiles on 6 or more tiles in which no colour occurs
\* more than twice returns, for every iteration order of the colour buckets,
\* two halves that together are exactly the input tiles, in which no colour
\* appears twice within a half, and whose sizes differ by at most one.
C22_MixedSplitIsBalanced ==
  (/\ last.cmd = "check_and_split"
   /\ Len(last.tiles) >= 6
   /\ AtMostTwicePerColour(last.tiles))
  => /\ Len(solved.solution) = 2
     /\ SameTiles(solved.solution[1] \o solved.solution[2], last.tiles)
     /\ DistinctColours(solved.solution[1])
     /\ DistinctColours(solved.solution[2])
     /\ Len(solved.solution[1]) - Len(solved.solution[2]) \in {-1, 0, 1}

\* C22, witness: [1H, 1B, 1B, 1O, 1O, 1R] was split with the buckets visited
\* in the order Red, Orange, Blue, Black
C22_Witness ==
  /\ last.cmd = "check_and_split"
  /\ last.tiles = <<H(1), B(1), B(1), O(1), O(1), R(1)>>
  /\ solved.solution = << <<O(1), B(1), H(1)>>, <<R(1), O(1), B(1)>> >>

(***************************************************************************)
(* Properties of the commands                                              *)
(***************************************************************************)
\* what display_error is called with
ErrorNames == {"InvalidFormat", "InvalidCommand", "InvalidIndex", "InvalidArgs", "InvalidTail", "Other"}

\* the step is an Enter on the init page or the game page
EnterStep == ops' = ops + 1 /\ last'.cmd \in {"EnterInit", "EnterGame"} \cup ErrorNames

\* the typed input fails parsing (nothing was captured) or one of its
\* commands fails conversion or validation on the board b
RejectedOn(typed, b) ==
  \/ typed = <<>>
  \/ \E i \in 1..Len(typed) : ~command_capture_to_tile_command(typed[i], b).ok

\* C29: in the TUI, input that fails parsing or validation leaves the game
\* as it was: on the game page a rejected command applies no operation, on
\* the init page a batch in which any one tile command is rejected applies
\* none of the operations of the batch; board and tiles_set_info are the same
\* as before Enter was pressed.
C29_RejectedInputChangesNothing ==
  [][(EnterStep /\ RejectedOn(last'.tiles, board))
     => (/\ board' = board
         /\ tiles_set_info' = tiles_set_info
         /\ status' = "running")]_vars

\* C29, witness: on the init page a batch of two commands was rejected for
\* its second command, the first command being valid
C29_Witness ==
  /\ last.cmd = "InvalidArgs"
  /\ Len(last.tiles) = 2
  /\ board = << <<>> >>
  /\ command_capture_to_tile_command(last.tiles[1], board).ok
  /\ ~command_capture_to_tile_command(last.tiles[2], board).ok


\* C30: TileCommand::validate only checks and never rewrites: for every
\* Replace command it accepts, the returned TileCommand has the same cmd,
\* idx, args, tail, replace_args and replace_tail as the input command.
C30_ValidateReturnsInput ==
  (/\ last.cmd = "validate"
   /\ last.tiles[1].cmd = "Replace"
   /\ solved.solution # <<>>)
  => solved.solution[1] = last.tiles[1]

====
